---- MODULE Spec2Model ----
(***************************************************************************)
(* A model of src/index.tsx: the FinBot chat client.  The module state of  *)
(* the page (chat, userProfile, uploadedFile, transactions), the DOM state *)
(* the handlers read back (the disabled controls, the input field, the     *)
(* chat history), the pending FileReader reads and the suspended           *)
(* sendMessage calls are the variables; every event listener and every     *)
(* resumption of an async function is one action.                          *)
(*                                                                         *)
(* Texts are TLA+ strings and are taken apart character by character.      *)
(* Numbers are records [k, v]: k = "fin" with v the value in hundredths,   *)
(* k = "inf" with v the sign, k = "nan".  The enumerated inputs carry at   *)
(* most two fractional digits and no exponent, so hundredths are exact.    *)
(***************************************************************************)
EXTENDS Integers, Sequences, FiniteSets, TLC

(***************************************************************************)
(* Bounds of the model.                                                    *)
(***************************************************************************)
\* The inputs one behaviour takes from its environment: the messages sent,
\* the chunks streamed back, the files picked and the openings of the
\* transaction viewer, together.
MaxEvents == 3

\* The data rows of a generated CSV text.
MaxRows == 3

(***************************************************************************)
(* String primitives (String.prototype.trim, String.prototype.split).      *)
(***************************************************************************)
Char(s, i) == SubSeq(s, i, i)

IsWhitespace(c) == c \in {" ", "\t", "\n", "\r"}

RECURSIVE TrimStart(_)
TrimStart(s) ==
    IF Len(s) > 0 /\ IsWhitespace(Char(s, 1)) THEN TrimStart(Tail(s)) ELSE s

RECURSIVE TrimEnd(_)
TrimEnd(s) ==
    IF Len(s) > 0 /\ IsWhitespace(Char(s, Len(s)))
    THEN TrimEnd(SubSeq(s, 1, Len(s) - 1))
    ELSE s

Trim(s) == TrimEnd(TrimStart(s))

\* s.split(sep) for a one-character separator: the pieces between the
\* occurrences of sep, in order; always at least one piece.
Split(s, sep) ==
    LET at == {i \in 1..Len(s) : Char(s, i) = sep}
        n == Cardinality(at)
        Nth(k) == CHOOSE p \in at : Cardinality({q \in at : q < p}) = k - 1
    IN  [k \in 1..(n + 1) |->
            SubSeq(s, IF k = 1 THEN 1 ELSE Nth(k - 1) + 1,
                      IF k = n + 1 THEN Len(s) ELSE Nth(k) - 1)]

StartsWith(s, p) == Len(s) >= Len(p) /\ SubSeq(s, 1, Len(p)) = p

(***************************************************************************)
(* Numbers.                                                                *)
(***************************************************************************)
Fin(v) == [k |-> "fin", v |-> v]
Inf(sign) == [k |-> "inf", v |-> sign]
NaN == [k |-> "nan", v |-> 0]

isNaN(a) == a.k = "nan"
IsFiniteNumber(a) == a.k = "fin"
NumGt0(a) == (a.k = "fin" /\ a.v > 0) \/ (a.k = "inf" /\ a.v > 0)
NumLt0(a) == (a.k = "fin" /\ a.v < 0) \/ (a.k = "inf" /\ a.v < 0)

NumAdd(a, b) ==
    IF isNaN(a) \/ isNaN(b) THEN NaN
    ELSE IF a.k = "inf" /\ b.k = "inf" THEN (IF a.v = b.v THEN a ELSE NaN)
    ELSE IF a.k = "inf" THEN a
    ELSE IF b.k = "inf" THEN b
    ELSE Fin(a.v + b.v)

NumAbs(a) ==
    IF a.k = "nan" THEN a
    ELSE IF a.k = "inf" THEN Inf(1)
    ELSE Fin(IF a.v < 0 THEN 0 - a.v ELSE a.v)

Digits == {"0", "1", "2", "3", "4", "5", "6", "7", "8", "9"}

DigitVal(c) ==
    CASE c = "0" -> 0 [] c = "1" -> 1 [] c = "2" -> 2 [] c = "3" -> 3
      [] c = "4" -> 4 [] c = "5" -> 5 [] c = "6" -> 6 [] c = "7" -> 7
      [] c = "8" -> 8 [] c = "9" -> 9

\* The longest prefix of s made of digits.
RECURSIVE DigitPrefix(_)
DigitPrefix(s) ==
    IF Len(s) > 0 /\ Char(s, 1) \in Digits
    THEN Char(s, 1) \o DigitPrefix(Tail(s))
    ELSE ""

RECURSIVE DigitsValue(_, _)
DigitsValue(s, acc) ==
    IF Len(s) = 0 THEN acc ELSE DigitsValue(Tail(s), 10 * acc + DigitVal(Char(s, 1)))

\* The first two fractional digits as hundredths.
Hundredths(frac) ==
    LET d1 == IF Len(frac) >= 1 THEN DigitVal(Char(frac, 1)) ELSE 0
        d2 == IF Len(frac) >= 2 THEN DigitVal(Char(frac, 2)) ELSE 0
    IN  10 * d1 + d2

\* parseFloat: leading whitespace is skipped, then the longest prefix that is
\* a decimal literal (sign, "Infinity" or digits with an optional fraction)
\* is converted; no such prefix gives NaN.  Trailing text is ignored.
parseFloat(str) ==
    LET s0 == TrimStart(str)
        neg == StartsWith(s0, "-")
        s1 == IF StartsWith(s0, "-") \/ StartsWith(s0, "+") THEN Tail(s0) ELSE s0
        int == DigitPrefix(s1)
        r1 == SubSeq(s1, Len(int) + 1, Len(s1))
        frac == IF StartsWith(r1, ".") THEN DigitPrefix(Tail(r1)) ELSE ""
        mag == 100 * DigitsValue(int, 0) + Hundredths(frac)
    IN  IF StartsWith(s1, "Infinity") THEN Inf(IF neg THEN 0 - 1 ELSE 1)
        ELSE IF Len(int) = 0 /\ Len(frac) = 0 THEN NaN
        ELSE Fin(IF neg THEN 0 - mag ELSE mag)

\* Number.prototype.toFixed(2).
toFixed2(a) ==
    IF a.k = "nan" THEN "NaN"
    ELSE IF a.k = "inf" THEN (IF a.v < 0 THEN "-Infinity" ELSE "Infinity")
    ELSE LET m == IF a.v < 0 THEN 0 - a.v ELSE a.v
             f == m % 100
         IN  (IF a.v < 0 THEN "-" ELSE "") \o ToString(m \div 100) \o "."
             \o (IF f < 10 THEN "0" ELSE "") \o ToString(f)

RECURSIVE Grouped(_)
\* The digits of a natural number in groups of three.
Grouped(n) ==
    IF n < 1000 THEN ToString(n)
    ELSE LET r == n % 1000
         IN  Grouped(n \div 1000) \o ","
             \o (IF r < 10 THEN "00" ELSE IF r < 100 THEN "0" ELSE "")
             \o ToString(r)

\* Number.prototype.toLocaleString('en-US', {style: 'currency',
\* currency: 'USD'}).  The infinity sign is written as its HTML entity.
toCurrency(a) ==
    IF a.k = "nan" THEN "$NaN"
    ELSE IF a.k = "inf" THEN (IF a.v < 0 THEN "-$&infin;" ELSE "$&infin;")
    ELSE LET m == IF a.v < 0 THEN 0 - a.v ELSE a.v
             f == m % 100
         IN  (IF a.v < 0 THEN "-$" ELSE "$") \o Grouped(m \div 100) \o "."
             \o (IF f < 10 THEN "0" ELSE "") \o ToString(f)

\* trx.amount >= 0
NumGe0(a) == a.k # "nan" /\ a.v >= 0

(***************************************************************************)
(* Program constants.                                                      *)
(***************************************************************************)
NoProfile == ""
NoChat == 0
NoFile == [name |-> "", content |-> ""]

\* The static lookup of quick-reply prompts, keyed by profile.
suggestedPrompts ==
    [Student |-> <<"How do I build credit?", "Budgeting tips for students",
                   "Should I start investing?">>,
     Professional |-> <<"How to save for a house?", "401(k) vs. IRA",
                        "Understanding my taxes">>,
     Retiree |-> <<"Managing retirement income", "Estate planning basics",
                   "Minimizing taxes in retirement">>]

\* The data-profile values of the profile buttons of the page: a profile
\* the lookup lists and one it has no entry for (the "|| []" case).  The
\* listed profiles differ in their texts alone.
UnlistedProfile == "Other"
ProfileButtons == {"Student", UnlistedProfile}

LoadingHTML ==
    "<div class=\"loading-indicator\"></div><div class=\"loading-indicator\"></div><div class=\"loading-indicator\"></div>"
FailureHTML == "Sorry, something went wrong. Please try again."
ReadErrorHTML == "Sorry, there was an error reading your file."
ConfigErrorHTML ==
    "<strong>Error:</strong> API_KEY environment variable not set.. Please ensure your API key is set up correctly and refresh the page."
ViewButtonText == "View Transactions"

(***************************************************************************)
(* Inputs the environment can supply.                                      *)
(***************************************************************************)
\* What the user can type: nothing, whitespace only, a padded question.
InputTexts == {"", "  ", " hi "}

\* Fragments the remote model can stream.
Chunks == {"Hello ", "**world**"}

FileA == [name |-> "a.csv",
          content |-> "Date,Description,Amount\n2024-01-01,Salary,2500\n2024-01-02,Groceries,-42.50\nbad,row"]
FileB == [name |-> "b.csv",
          content |-> "Date,Description,Amount\n2024-02-01,Refund,Infinity\n"]
FileC == [name |-> "c.csv",
          content |-> "Date,Description,Amount\n\n ,Rent,-900\n2024-03-01,Fee,n/a"]
Files == {FileA, FileB, FileC}

(***************************************************************************)
(* parseCSV                                                                *)
(***************************************************************************)
ParseLine_ExactlyThree(line, acc) ==
    IF Trim(line) = "" THEN acc
    ELSE LET parts == Split(line, ",")
         IN  IF Len(parts) = 3
                /\ Trim(parts[1]) # "" /\ Trim(parts[2]) # ""
                /\ ~isNaN(parseFloat(Trim(parts[3])))
             THEN Append(acc, [date |-> Trim(parts[1]),
                               description |-> Trim(parts[2]),
                               amount |-> parseFloat(Trim(parts[3]))])
             ELSE acc

\* One line of the loop body: the record it pushes, or nothing.
ParseLine(line, acc) ==
    IF Trim(line) = "" THEN acc
    ELSE LET parts == Split(line, ",")
         IN  IF Len(parts) >= 3
             THEN LET date == Trim(parts[1])
                      description == Trim(parts[2])
                      amount == parseFloat(Trim(parts[3]))
                  IN  IF date # "" /\ description # "" /\ ~isNaN(amount)
                      THEN Append(acc, [date |-> date, description |-> description,
                                        amount |-> amount])
                      ELSE acc
             ELSE acc

RECURSIVE ParseLines(_, _)
ParseLines(lines, acc) ==
    IF Len(lines) = 0 THEN acc
    ELSE ParseLines(Tail(lines), ParseLine(Head(lines), acc))

\* A parse that keeps pushing onto the list already held.
parseCSV_NoReset(held, csvContent) ==
    ParseLines(Tail(Split(csvContent, "\n")), held)

\* The new value of transactions: the held list is reset, the header line
\* is sliced off, and the loop pushes the accepted records in order.
parseCSV(held, csvContent) ==
    LET reset == << >>
    IN  ParseLines(Tail(Split(csvContent, "\n")), reset)

(***************************************************************************)
(* The summary of sendMessage                                              *)
(***************************************************************************)
\* Array.prototype.reduce((sum, t) => sum + t.amount, sum)
RECURSIVE ReduceSum(_, _)
ReduceSum(s, sum) ==
    IF Len(s) = 0 THEN sum ELSE ReduceSum(Tail(s), NumAdd(sum, Head(s).amount))

IsIncome(t) == NumGt0(t.amount)
IsExpense(t) == NumLt0(t.amount)

totalIncome_Unfiltered(trs) == ReduceSum(trs, Fin(0))

totalIncome(trs) == ReduceSum(SelectSeq(trs, IsIncome), Fin(0))

\* The signed sum of the negative amounts (Math.abs is applied on use).
totalExpenses(trs) == ReduceSum(SelectSeq(trs, IsExpense), Fin(0))

summaryText(trs) ==
    "The user has uploaded a CSV with " \o ToString(Len(trs))
    \o " transactions. Total income: " \o toFixed2(totalIncome(trs))
    \o ", Total expenses: " \o toFixed2(NumAbs(totalExpenses(trs))) \o "."

WithSummary(trs, messageText) ==
    summaryText(trs)
    \o "\n\nPlease answer the user's question based on this data: \""
    \o messageText \o "\""

HasTransactionContext(file, trs) == file # NoFile /\ Len(trs) > 0

\* The prompt sendMessage passes to the session.
BuildPrompt(file, trs, messageText) ==
    IF HasTransactionContext(file, trs) THEN WithSummary(trs, messageText)
    ELSE messageText

(***************************************************************************)
(* Display formatting of the accumulated response                          *)
(***************************************************************************)
\* The least j >= i with "**" at j and no newline in s[i..j-1]; 0 if none.
RECURSIVE ClosingAt(_, _)
ClosingAt(s, j) ==
    IF j + 1 > Len(s) THEN 0
    ELSE IF SubSeq(s, j, j + 1) = "**" THEN j
    ELSE IF Char(s, j) = "\n" THEN 0
    ELSE ClosingAt(s, j + 1)

\* .replace(/\*\*(.*?)\*\*/g, '<strong>$1</strong>')
RECURSIVE ReplaceStrong(_)
ReplaceStrong(s) ==
    IF Len(s) = 0 THEN ""
    ELSE IF StartsWith(s, "**") /\ ClosingAt(s, 3) # 0
         THEN LET j == ClosingAt(s, 3)
              IN  "<strong>" \o SubSeq(s, 3, j - 1) \o "</strong>"
                  \o ReplaceStrong(SubSeq(s, j + 2, Len(s)))
         ELSE Char(s, 1) \o ReplaceStrong(Tail(s))

\* .replace(/\n/g, '<br>')
RECURSIVE ReplaceNewlines(_)
ReplaceNewlines(s) ==
    IF Len(s) = 0 THEN ""
    ELSE (IF Char(s, 1) = "\n" THEN "<br>" ELSE Char(s, 1))
         \o ReplaceNewlines(Tail(s))

FormatResponse(fullResponse) == ReplaceNewlines(ReplaceStrong(fullResponse))

(***************************************************************************)
(* State                                                                   *)
(***************************************************************************)
VARIABLES
    apiKey,          \* whether process.env.API_KEY is set
    userProfile,     \* the chosen profile, NoProfile before the choice
    selectorHidden,  \* the profile selector is hidden and the app is shown
    chat,            \* the session handle: NoChat while undefined
    sessions,        \* how many sessions ai.chats.create has created
    disabled,        \* chatInput, sendButton and attachButton are disabled
    chatInputValue,  \* chatInput.value
    log,             \* the children of chatHistory, in order
    uploadedFile,    \* the attached file, NoFile when none
    transactions,    \* the held transaction list
    pending,         \* the files whose FileReader read has not completed
    picks,           \* how many files have been picked
    sends,           \* the sendMessage calls that got past the blank check
    requests,        \* the sendMessageStream calls made, in order
    transactionViewHidden, \* the transaction viewer carries the class hidden
    tableRows,       \* the rows of the viewer's table body
    views,           \* how often the viewer was opened
    removed,         \* the user removed the file and picked none since
    lastOp           \* the input of the last step: a submitted text, a file read

vars == <<apiKey, userProfile, selectorHidden, chat, sessions, disabled,
          chatInputValue, log, uploadedFile, transactions, pending, picks,
          sends, requests, transactionViewHidden, tableRows, views, removed,
          lastOp>>

\* Everything the program itself holds (picks, views, removed and lastOp are
\* the observer's notes).
progVars == <<apiKey, userProfile, selectorHidden, chat, sessions, disabled,
              chatInputValue, log, uploadedFile, transactions, pending,
              sends, requests, transactionViewHidden, tableRows>>

\* The transaction viewer and its count of openings.
ViewerFrame == <<transactionViewHidden, tableRows, views>>

Op(op, text) == [op |-> op, text |-> text]

(***************************************************************************)
(* DOM helpers                                                             *)
(***************************************************************************)
Entry(sender, html) ==
    [sender |-> sender, html |-> html, buttons |-> << >>, block |-> FALSE]

addMessage(l, sender, text) == Append(l, Entry(sender, text))

IsUserEntry(e) == e.sender = "user"
IsPromptBlock(e) == e.block

\* chatHistory.querySelectorAll('.message.user').length
UserCount(l) == Len(SelectSeq(l, IsUserEntry))

PromptBlocks(l) == Len(SelectSeq(l, IsPromptBlock))

PromptsOf(profile) ==
    IF profile \in DOMAIN suggestedPrompts THEN suggestedPrompts[profile]
    ELSE << >>

renderSuggestedPrompts(l, profile) ==
    LET prompts == PromptsOf(profile)
    IN  IF Len(prompts) = 0 THEN l
        ELSE Append(l, [sender |-> "model", html |-> "",
                        buttons |-> [i \in 1..Len(prompts) |->
                                        [text |-> prompts[i], view |-> FALSE]],
                        block |-> TRUE])

setFormState_Stuck(isLoading) == TRUE

\* The new disabled state of the three controls.
setFormState(isLoading) == isLoading

IsFirstUserTurn_AnyTurn(l) == UserCount(l) >= 1

\* The test that guards renderSuggestedPrompts after a stream has ended.
IsFirstUserTurn(l) == UserCount(l) = 1

IsBlank_EmptyOnly(messageText) == messageText = ""

\* !messageText.trim()
IsBlank(messageText) == Trim(messageText) = ""

addTransactionAnalysisMessage_AlwaysButton(l, trs) ==
    Append(l, [sender |-> "model",
               html |-> "I've analyzed your CSV file with "
                        \o ToString(Len(trs))
                        \o " transactions. You can view them or ask me questions about the data.",
               buttons |-> <<[text |-> ViewButtonText, view |-> TRUE]>>,
               block |-> FALSE])

addTransactionAnalysisMessage(l, trs) ==
    IF Len(trs) > 0
    THEN Append(l, [sender |-> "model",
                    html |-> "I've analyzed your CSV file with "
                             \o ToString(Len(trs))
                             \o " transactions. You can view them or ask me questions about the data.",
                    buttons |-> <<[text |-> ViewButtonText, view |-> TRUE]>>,
                    block |-> FALSE])
    ELSE addMessage(l, "model",
             "I couldn't find any valid transactions in your CSV. Please check the format (e.g., Date,Description,Amount) and try again.")

\* The row shown for an empty list.
NoTransactionsRow == [colspan |-> 3, text |-> "No transactions found in the file."]

TransactionRow(trx) ==
    [date |-> trx.date, description |-> trx.description,
     amountClass |-> IF NumGe0(trx.amount) THEN "amount-positive"
                     ELSE "amount-negative",
     formattedAmount |-> toCurrency(trx.amount)]

renderTransactionsTable_Stale(trs) == tableRows

\* The rows of the table body once renderTransactionsTable has returned.
renderTransactionsTable(trs) ==
    IF Len(trs) = 0 THEN <<NoTransactionsRow>>
    ELSE [i \in 1..Len(trs) |-> TransactionRow(trs[i])]

RECURSIVE RemoveAt(_, _)
RemoveAt(s, i) ==
    IF i = 1 THEN Tail(s) ELSE <<Head(s)>> \o RemoveAt(Tail(s), i - 1)

RECURSIVE ChunksReceived(_)
ChunksReceived(ss) ==
    IF Len(ss) = 0 THEN 0 ELSE Head(ss).n + ChunksReceived(Tail(ss))

\* The environment inputs taken so far.
Events == Len(sends) + ChunksReceived(sends) + picks + views

Outstanding(ss) == {i \in DOMAIN ss : ss[i].pc \in {"await", "stream"}}

(***************************************************************************)
(* initializeChat                                                          *)
(***************************************************************************)
CredentialPresent_Unchecked(key) == TRUE

\* The API_KEY test that opens initializeChat.
CredentialPresent(key) == key

initializeChat_Silent(l) ==
    IF CredentialPresent(apiKey)
    THEN [chat |-> sessions + 1, sessions |-> sessions + 1, log |-> l]
    ELSE [chat |-> chat, sessions |-> sessions, log |-> l]

\* The values of chat, sessions and log once initializeChat has returned.
initializeChat(l) ==
    IF CredentialPresent(apiKey)
    THEN [chat |-> sessions + 1, sessions |-> sessions + 1, log |-> l]
    ELSE [chat |-> chat, sessions |-> sessions,
          log |-> addMessage(l, "model", ConfigErrorHTML)]

(***************************************************************************)
(* sendMessage, up to its first suspension                                 *)
(***************************************************************************)
\* messageText is the argument; input0, log0 and chat0 are chatInput.value,
\* the history and the session handle as the caller left them.
sendMessage(messageText, input0, log0, chat0) ==
    IF IsBlank(messageText)
    THEN /\ log' = log0
         /\ chatInputValue' = input0
         /\ UNCHANGED <<disabled, sends, requests>>
    ELSE LET prompt == BuildPrompt(uploadedFile, transactions, messageText)
             log1 == addMessage(addMessage(log0, "user", messageText),
                                "model", LoadingHTML)
             el == Len(log1)
         IN  /\ Events < MaxEvents
             /\ chatInputValue' = ""
             /\ IF chat0 = NoChat
                THEN \* chat.sendMessageStream throws inside the try block:
                     \* the catch and the finally run before any suspension.
                     /\ log' = [log1 EXCEPT ![el].html = FailureHTML]
                     /\ disabled' = setFormState(FALSE)
                     /\ sends' = Append(sends, [pc |-> "failed", el |-> el,
                                                full |-> "", n |-> 0, got |-> << >>,
                                                text |-> messageText])
                     /\ UNCHANGED requests
                ELSE /\ log' = log1
                     /\ disabled' = setFormState(TRUE)
                     /\ sends' = Append(sends, [pc |-> "await", el |-> el,
                                                full |-> "", n |-> 0, got |-> << >>,
                                                text |-> messageText])
                     /\ requests' = Append(requests,
                            [send |-> Len(sends) + 1, session |-> chat0,
                             prompt |-> prompt, text |-> messageText,
                             file |-> uploadedFile, held |-> transactions])

(***************************************************************************)
(* Event listeners                                                         *)
(***************************************************************************)
\* The message a profile choice sends by itself.
Greeting(p) == "Hi! My profile is: " \o p

\* A profile button is clicked; p = NoProfile is a button without a
\* data-profile attribute.  A choice hides the selector, so it is made once.
ProfileClick(p) ==
    /\ ~selectorHidden
    /\ userProfile' = p
    /\ lastOp' = Op("other", "")
    /\ IF p # NoProfile
       THEN LET init == initializeChat(log)
            IN  /\ selectorHidden' = TRUE
                /\ chat' = init.chat
                /\ sessions' = init.sessions
                /\ sendMessage(Greeting(p), chatInputValue,
                               init.log, init.chat)
       ELSE UNCHANGED <<selectorHidden, chat, sessions, disabled,
                        chatInputValue, log, sends, requests>>
    /\ UNCHANGED <<apiKey, uploadedFile, transactions, pending, picks>>
    /\ UNCHANGED <<ViewerFrame, removed>>

\* The user edits the input field.
TypeInput(t) ==
    /\ selectorHidden /\ ~disabled
    /\ chatInputValue # t
    /\ chatInputValue' = t
    /\ lastOp' = Op("other", "")
    /\ UNCHANGED <<apiKey, userProfile, selectorHidden, chat, sessions,
                   disabled, log, uploadedFile, transactions, pending, picks,
                   sends, requests>>
    /\ UNCHANGED <<ViewerFrame, removed>>

\* The form is submitted through the send button or the Enter key; neither
\* is available while the input field and the send button are disabled.
Submit ==
    /\ selectorHidden /\ ~disabled
    /\ lastOp' = Op("submit", chatInputValue)
    /\ sendMessage(chatInputValue, chatInputValue, log, chat)
    /\ UNCHANGED <<apiKey, userProfile, selectorHidden, chat, sessions,
                   uploadedFile, transactions, pending, picks>>
    /\ UNCHANGED <<ViewerFrame, removed>>

\* A quick-reply button of the history is clicked: its text is put in the
\* input field and a submit event is dispatched on the form.  setFormState
\* does not reach the buttons of the history, so the click needs no enabled
\* control.
QuickReplyClick(i, j) ==
    /\ i \in DOMAIN log /\ j \in DOMAIN log[i].buttons
    /\ ~log[i].buttons[j].view
    /\ lastOp' = Op("quick", log[i].buttons[j].text)
    /\ sendMessage(log[i].buttons[j].text, log[i].buttons[j].text, log, chat)
    /\ UNCHANGED <<apiKey, userProfile, selectorHidden, chat, sessions,
                   uploadedFile, transactions, pending, picks>>
    /\ UNCHANGED <<ViewerFrame, removed>>

\* The file input changes with a file chosen through the attach button,
\* which setFormState disables during a send.
handleFileSelect(f) ==
    /\ selectorHidden /\ ~disabled
    /\ Events < MaxEvents
    /\ uploadedFile' = f
    /\ pending' = Append(pending, f)
    /\ picks' = picks + 1
    /\ lastOp' = Op("pick", f.name)
    /\ UNCHANGED <<apiKey, userProfile, selectorHidden, chat, sessions,
                   disabled, chatInputValue, log, transactions, sends,
                   requests>>
    /\ removed' = FALSE
    /\ UNCHANGED ViewerFrame

\* reader.onload of the i-th pending read.
ReaderLoad(i) ==
    /\ i \in DOMAIN pending
    /\ transactions' = parseCSV(transactions, pending[i].content)
    /\ log' = addTransactionAnalysisMessage(log, transactions')
    /\ pending' = RemoveAt(pending, i)
    /\ lastOp' = Op("load", pending[i].content)
    /\ UNCHANGED <<apiKey, userProfile, selectorHidden, chat, sessions,
                   disabled, chatInputValue, uploadedFile, picks, sends,
                   requests>>
    /\ UNCHANGED <<ViewerFrame, removed>>

resetFileInput_KeepList ==
    [uploadedFile |-> NoFile, transactions |-> transactions]

\* The values of uploadedFile and transactions once resetFileInput has
\* returned.
resetFileInput == [uploadedFile |-> NoFile, transactions |-> << >>]

\* reader.onerror of the i-th pending read.
ReaderError(i) ==
    /\ i \in DOMAIN pending
    /\ log' = addMessage(log, "model", ReadErrorHTML)
    /\ uploadedFile' = resetFileInput.uploadedFile
    /\ transactions' = resetFileInput.transactions
    /\ pending' = RemoveAt(pending, i)
    /\ lastOp' = Op("readerror", pending[i].name)
    /\ UNCHANGED <<apiKey, userProfile, selectorHidden, chat, sessions,
                   disabled, chatInputValue, picks, sends, requests>>
    /\ UNCHANGED <<ViewerFrame, removed>>

\* The remove button of the file preview is clicked (resetFileInput).
RemoveFileClick ==
    /\ uploadedFile # NoFile
    /\ uploadedFile' = resetFileInput.uploadedFile
    /\ transactions' = resetFileInput.transactions
    /\ lastOp' = Op("remove", uploadedFile.name)
    /\ UNCHANGED <<apiKey, userProfile, selectorHidden, chat, sessions,
                   disabled, chatInputValue, log, pending, picks, sends,
                   requests>>
    /\ removed' = TRUE
    /\ UNCHANGED ViewerFrame

\* A view-transactions button of the history is clicked: the table is
\* rendered from the held list and the viewer is shown.
ViewTransactionsClick(i, j) ==
    /\ i \in DOMAIN log /\ j \in DOMAIN log[i].buttons
    /\ log[i].buttons[j].view
    /\ Events < MaxEvents
    /\ tableRows' = renderTransactionsTable(transactions)
    /\ transactionViewHidden' = FALSE
    /\ views' = views + 1
    /\ lastOp' = Op("view", "")
    /\ UNCHANGED <<apiKey, userProfile, selectorHidden, chat, sessions,
                   disabled, chatInputValue, log, uploadedFile, transactions,
                   pending, picks, sends, requests, removed>>

\* What both ways of closing the viewer do.
HideViewer ==
    /\ ~transactionViewHidden
    /\ transactionViewHidden' = TRUE
    /\ lastOp' = Op("other", "")
    /\ UNCHANGED <<apiKey, userProfile, selectorHidden, chat, sessions,
                   disabled, chatInputValue, log, uploadedFile, transactions,
                   pending, picks, sends, requests, tableRows, views, removed>>

\* The close button of the viewer is clicked.
CloseModalClick == HideViewer

\* The backdrop of the viewer is clicked.
BackdropClick == HideViewer

(***************************************************************************)
(* Resumptions of a suspended sendMessage                                  *)
(***************************************************************************)
SendFrame == <<apiKey, userProfile, selectorHidden, chat, sessions,
               chatInputValue, uploadedFile, transactions, pending, picks,
               requests, transactionViewHidden, tableRows, views, removed>>

\* await chat.sendMessageStream(...) resolves.
StreamOpen(i) ==
    /\ i \in DOMAIN sends /\ sends[i].pc = "await"
    /\ sends' = [sends EXCEPT ![i].pc = "stream", ![i].full = ""]
    /\ log' = [log EXCEPT ![sends[i].el].html = ""]
    /\ lastOp' = Op("other", "")
    /\ UNCHANGED disabled
    /\ UNCHANGED SendFrame

Failed_NoFinally(i) ==
    /\ sends' = [sends EXCEPT ![i].pc = "failed"]
    /\ log' = [log EXCEPT ![sends[i].el].html = FailureHTML]
    /\ lastOp' = Op("other", "")
    /\ UNCHANGED disabled
    /\ UNCHANGED SendFrame

\* The catch and finally blocks.
Failed(i) ==
    /\ sends' = [sends EXCEPT ![i].pc = "failed"]
    /\ log' = [log EXCEPT ![sends[i].el].html = FailureHTML]
    /\ disabled' = setFormState(FALSE)
    /\ lastOp' = Op("other", "")
    /\ UNCHANGED SendFrame

\* await chat.sendMessageStream(...) rejects.
StreamReject(i) ==
    /\ i \in DOMAIN sends /\ sends[i].pc = "await"
    /\ Failed(i)

Accumulate_Latest(fullResponse, chunkText) == chunkText

\* fullResponse += chunk.text
Accumulate(fullResponse, chunkText) == fullResponse \o chunkText

\* The stream yields a chunk: the placeholder is rewritten with the whole
\* response so far.  got keeps the chunks as they arrived.
StreamChunk(i, c) ==
    /\ i \in DOMAIN sends /\ sends[i].pc = "stream"
    /\ Events < MaxEvents
    /\ sends' = [sends EXCEPT ![i].full = Accumulate(@, c), ![i].n = @ + 1,
                               ![i].got = Append(@, c)]
    /\ log' = [log EXCEPT ![sends[i].el].html = FormatResponse(sends'[i].full)]
    /\ lastOp' = Op("other", "")
    /\ UNCHANGED disabled
    /\ UNCHANGED SendFrame

\* The stream ends normally.
StreamEnd(i) ==
    /\ i \in DOMAIN sends /\ sends[i].pc = "stream"
    /\ sends' = [sends EXCEPT ![i].pc = "ok"]
    /\ log' = IF IsFirstUserTurn(log) THEN renderSuggestedPrompts(log, userProfile)
              ELSE log
    /\ disabled' = setFormState(FALSE)
    /\ lastOp' = Op("other", "")
    /\ UNCHANGED SendFrame

\* The stream throws while it is iterated.
StreamThrow(i) ==
    /\ i \in DOMAIN sends /\ sends[i].pc = "stream"
    /\ Failed(i)

(***************************************************************************)
(* Specification                                                           *)
(***************************************************************************)
Init ==
    /\ apiKey \in BOOLEAN
    /\ userProfile = NoProfile
    /\ selectorHidden = FALSE
    /\ chat = NoChat
    /\ sessions = 0
    /\ disabled = FALSE
    /\ chatInputValue = ""
    /\ log = << >>
    /\ uploadedFile = NoFile
    /\ transactions = << >>
    /\ pending = << >>
    /\ picks = 0
    /\ sends = << >>
    /\ requests = << >>
    /\ transactionViewHidden = TRUE
    /\ tableRows = << >>
    /\ views = 0
    /\ removed = FALSE
    /\ lastOp = Op("other", "")

Next ==
    \/ \E p \in ProfileButtons \cup {NoProfile} : ProfileClick(p)
    \/ \E t \in InputTexts : TypeInput(t)
    \/ Submit
    \/ \E i \in DOMAIN log : \E j \in DOMAIN log[i].buttons : QuickReplyClick(i, j)
    \/ \E f \in Files : handleFileSelect(f)
    \/ \E i \in DOMAIN pending : ReaderLoad(i)
    \/ \E i \in DOMAIN pending : ReaderError(i)
    \/ RemoveFileClick
    \/ \E i \in DOMAIN log : \E j \in DOMAIN log[i].buttons : ViewTransactionsClick(i, j)
    \/ CloseModalClick
    \/ BackdropClick
    \/ \E i \in DOMAIN sends : StreamOpen(i)
    \/ \E i \in DOMAIN sends : StreamReject(i)
    \/ \E i \in DOMAIN sends : \E c \in Chunks : StreamChunk(i, c)
    \/ \E i \in DOMAIN sends : StreamEnd(i)
    \/ \E i \in DOMAIN sends : StreamThrow(i)

Spec == Init /\ [][Next]_vars

\* The remote side answers: a pending sendMessageStream call resolves or
\* rejects, and an open stream ends or throws.
RequestSettles == \E i \in DOMAIN sends : StreamOpen(i) \/ StreamReject(i)
StreamFinishes == \E i \in DOMAIN sends : StreamEnd(i) \/ StreamThrow(i)

\* The program with a remote side that always answers in the end.
SpecLive == Spec /\ WF_vars(RequestSettles) /\ WF_vars(StreamFinishes)

(***************************************************************************)
(* The conversation over generated CSV files                               *)
(*                                                                         *)
(* The summary of sendMessage is a function of the held list alone.  This  *)
(* specification starts where the greeting of an unlisted profile has      *)
(* completed and the read of one generated CSV file has been parsed, and   *)
(* lets the user type and submit from there.                               *)
(***************************************************************************)
CsvHeader == "Date,Description,Amount"

RowSet == {"2024-01-01,Salary,2500", "2024-01-02,Groceries,-42.50",
           "2024-01-03,Transfer,0", "2024-01-04,Refund,Infinity", "bad,row"}

RECURSIVE CsvTexts(_)
CsvTexts(n) ==
    IF n = 0 THEN {CsvHeader}
    ELSE CsvTexts(n - 1)
         \cup {t \o "\n" \o r : t \in CsvTexts(n - 1), r \in RowSet}

InitSummary ==
    \E text \in CsvTexts(MaxRows) :
        /\ apiKey = TRUE
        /\ userProfile = UnlistedProfile
        /\ selectorHidden = TRUE
        /\ chat = 1
        /\ sessions = 1
        /\ disabled = FALSE
        /\ chatInputValue = ""
        /\ transactions = parseCSV(<< >>, text)
        /\ log = addTransactionAnalysisMessage(
                     <<Entry("user", Greeting(UnlistedProfile)), Entry("model", "")>>,
                     parseCSV(<< >>, text))
        /\ uploadedFile = [name |-> "generated.csv", content |-> text]
        /\ pending = << >>
        /\ picks = 1
        /\ sends = <<[pc |-> "ok", el |-> 2, full |-> "", n |-> 0, got |-> << >>,
                      text |-> Greeting(UnlistedProfile)]>>
        /\ requests = <<[send |-> 1, session |-> 1,
                         prompt |-> Greeting(UnlistedProfile),
                         text |-> Greeting(UnlistedProfile),
                         file |-> NoFile, held |-> << >>]>>
        /\ transactionViewHidden = TRUE
        /\ tableRows = << >>
        /\ views = 0
        /\ removed = FALSE
        /\ lastOp = Op("load", text)

NextSummary ==
    \/ \E t \in InputTexts : TypeInput(t)
    \/ Submit
    \/ \E i \in DOMAIN sends : StreamOpen(i)
    \/ \E i \in DOMAIN sends : StreamEnd(i)

SpecSummary == InitSummary /\ [][NextSummary]_vars

(***************************************************************************)
(* The read of one generated CSV file                                      *)
(*                                                                         *)
(* This specification starts where the greeting of an unlisted profile has *)
(* completed and a generated file has just been selected, its read         *)
(* pending.  The first line of the text is a header, a line that would be  *)
(* a valid record, or empty; the lines after it are valid, padded, blank,  *)
(* short, or carry an empty date or a non-numeric amount.                  *)
(***************************************************************************)
FirstLines == {CsvHeader, "2024-01-09,Bonus,100", ""}

ParseRows == {"2024-01-01,Salary,2500", "2024-01-02,Groceries,-42.50",
              "bad,row", "", " 2024-01-05 , Rent , -900.5x,extra",
              " ,Rent,-900", "2024-03-01,Fee,n/a"}

RECURSIVE ParseTexts(_)
ParseTexts(n) ==
    IF n = 0 THEN FirstLines
    ELSE ParseTexts(n - 1)
         \cup {t \o "\n" \o r : t \in ParseTexts(n - 1), r \in ParseRows}

InitParse ==
    \E text \in ParseTexts(MaxRows) :
        LET file == [name |-> "generated.csv", content |-> text]
        IN  /\ apiKey = TRUE
            /\ userProfile = UnlistedProfile
            /\ selectorHidden = TRUE
            /\ chat = 1
            /\ sessions = 1
            /\ disabled = FALSE
            /\ chatInputValue = ""
            /\ transactions = << >>
            /\ log = <<Entry("user", Greeting(UnlistedProfile)),
                       Entry("model", "")>>
            /\ uploadedFile = file
            /\ pending = <<file>>
            /\ picks = 1
            /\ sends = <<[pc |-> "ok", el |-> 2, full |-> "", n |-> 0,
                          got |-> << >>, text |-> Greeting(UnlistedProfile)]>>
            /\ requests = <<[send |-> 1, session |-> 1,
                             prompt |-> Greeting(UnlistedProfile),
                             text |-> Greeting(UnlistedProfile),
                             file |-> NoFile, held |-> << >>]>>
            /\ transactionViewHidden = TRUE
            /\ tableRows = << >>
            /\ views = 0
            /\ removed = FALSE
            /\ lastOp = Op("pick", "generated.csv")

NextParse ==
    \/ \E i \in DOMAIN pending : ReaderLoad(i)
    \/ \E i \in DOMAIN pending : ReaderError(i)

SpecParse == InitParse /\ [][NextParse]_vars

(***************************************************************************)
(* One streamed answer                                                     *)
(*                                                                         *)
(* This specification starts where a profile has been chosen with a        *)
(* credential available and the greeting's request is pending, and lets    *)
(* the remote side answer it with fragments that split emphasis spans and  *)
(* lines in every way.                                                     *)
(***************************************************************************)
ChunkTexts == Chunks \cup {"**wor", "ld**\n", "\n", "*"}

InitStream ==
    \E p \in ProfileButtons :
        /\ apiKey = TRUE
        /\ userProfile = p
        /\ selectorHidden = TRUE
        /\ chat = 1
        /\ sessions = 1
        /\ disabled = TRUE
        /\ chatInputValue = ""
        /\ log = <<Entry("user", Greeting(p)), Entry("model", LoadingHTML)>>
        /\ uploadedFile = NoFile
        /\ transactions = << >>
        /\ pending = << >>
        /\ picks = 0
        /\ sends = <<[pc |-> "await", el |-> 2, full |-> "", n |-> 0,
                      got |-> << >>, text |-> Greeting(p)]>>
        /\ requests = <<[send |-> 1, session |-> 1, prompt |-> Greeting(p),
                         text |-> Greeting(p), file |-> NoFile,
                         held |-> << >>]>>
        /\ transactionViewHidden = TRUE
        /\ tableRows = << >>
        /\ views = 0
        /\ removed = FALSE
        /\ lastOp = Op("other", "")

NextStream ==
    \/ \E i \in DOMAIN sends : StreamOpen(i)
    \/ \E i \in DOMAIN sends : StreamReject(i)
    \/ \E i \in DOMAIN sends : \E c \in ChunkTexts : StreamChunk(i, c)
    \/ \E i \in DOMAIN sends : StreamEnd(i)
    \/ \E i \in DOMAIN sends : StreamThrow(i)

SpecStream == InitStream /\ [][NextStream]_vars

(***************************************************************************)
(* Properties                                                              *)
(***************************************************************************)
AllWhitespace(t) == \A i \in 1..Len(t) : IsWhitespace(Char(t, i))

\* The log entry that shows the user's text of send i.
UserEntryOf(i) == log[sends[i].el - 1]

\* What a data line of a CSV text must be to become a record.
RowAccepted(line) ==
    LET parts == Split(line, ",")
    IN  /\ Len(parts) >= 3
        /\ Trim(parts[1]) # ""
        /\ Trim(parts[2]) # ""
        /\ ~isNaN(parseFloat(Trim(parts[3])))

RowRecord(line) ==
    LET parts == Split(line, ",")
    IN  [date |-> Trim(parts[1]), description |-> Trim(parts[2]),
         amount |-> parseFloat(Trim(parts[3]))]

\* The records of a CSV text: its accepted data lines, in order.
AcceptedRecords(text) ==
    LET lines == Split(text, "\n")
        ok == SelectSeq(SubSeq(lines, 2, Len(lines)), RowAccepted)
    IN  [i \in 1..Len(ok) |-> RowRecord(ok[i])]

RECURSIVE SumOver(_, _)
SumOver(S, trs) ==
    IF S = {} THEN Fin(0)
    ELSE LET i == CHOOSE j \in S : TRUE
         IN  NumAdd(trs[i].amount, SumOver(S \ {i}, trs))

IncomeOf(trs) == SumOver({i \in DOMAIN trs : NumGt0(trs[i].amount)}, trs)
ExpensesOf(trs) == NumAbs(SumOver({i \in DOMAIN trs : NumLt0(trs[i].amount)}, trs))

SummaryPromptOf(trs, text) ==
    "The user has uploaded a CSV with " \o ToString(Len(trs))
    \o " transactions. Total income: " \o toFixed2(IncomeOf(trs))
    \o ", Total expenses: " \o toFixed2(ExpensesOf(trs))
    \o ".\n\nPlease answer the user's question based on this data: \""
    \o text \o "\""

AnalysisHTML(n) ==
    "I've analyzed your CSV file with " \o ToString(n)
    \o " transactions. You can view them or ask me questions about the data."

\* C1: at most one send is outstanding at any time: no sendMessageStream
\* request is started while an earlier one has neither completed nor failed.
C1_SingleOutstanding == Cardinality(Outstanding(sends)) <= 1

\* C2: the flight flag (the controls are disabled) is true exactly when a
\* send is outstanding.
C2_FlagTracksOutstanding == disabled <=> (Outstanding(sends) # {})

\* C3, as claimed: the log never holds more than one suggested-prompts
\* block, and holds exactly one once any user turn of a profile with a
\* prompt entry has completed.
C3_BlockAfterAnyCompletedTurn ==
    /\ PromptBlocks(log) <= 1
    /\ (/\ userProfile \in DOMAIN suggestedPrompts
        /\ \E i \in DOMAIN sends : sends[i].pc = "ok")
       => PromptBlocks(log) = 1

\* C3, amended: the log never holds more than one suggested-prompts block;
\* it holds exactly one, carrying the profile's prompts, if and only if the
\* conversation's first user turn (the greeting) has ended normally for a
\* profile with a prompt entry.  No later turn appends one, so the log holds
\* none when the first turn failed.
C3_BlockOnlyAfterFirstTurn ==
    /\ PromptBlocks(log) <= 1
    /\ PromptBlocks(log) = 1
         <=> (/\ userProfile \in DOMAIN suggestedPrompts
              /\ Len(sends) >= 1
              /\ sends[1].pc = "ok")
    /\ \A i \in DOMAIN log :
         log[i].block =>
           /\ i = sends[1].el + 1
           /\ [j \in DOMAIN log[i].buttons |-> log[i].buttons[j].text]
                = suggestedPrompts[userProfile]

\* A second turn has completed and the log still holds the one block.
C3_Witness ==
    /\ PromptBlocks(log) = 1
    /\ \E i \in DOMAIN sends : i > 1 /\ sends[i].pc = "ok"

\* C4, as claimed: once a profile is chosen the session handle refers to
\* exactly one created session, and every request is made on it.
C4_OneSessionAfterPick ==
    userProfile # NoProfile =>
        /\ chat # NoChat
        /\ sessions = 1
        /\ \A k \in DOMAIN requests : requests[k].session = chat

\* C4, amended: never more than one session is created; once a profile is
\* chosen with a credential available the handle refers to the one created
\* session, and without a credential no session is created and the handle
\* stays unset; every sendMessageStream call is made on the one session.
C4_OneSessionWithCredential ==
    /\ sessions <= 1
    /\ userProfile = NoProfile => (chat = NoChat /\ sessions = 0)
    /\ (userProfile # NoProfile /\ apiKey) => (chat # NoChat /\ sessions = 1)
    /\ (userProfile # NoProfile /\ ~apiKey) => (chat = NoChat /\ sessions = 0)
    /\ \A k \in DOMAIN requests :
         requests[k].session = chat /\ requests[k].session # NoChat

\* Two requests have been made on the session of a chosen profile.
C4_Witness ==
    /\ userProfile # NoProfile /\ apiKey
    /\ Len(requests) >= 2

\* C5: when a send's stream throws, before any chunk or mid-sequence, the
\* placeholder of the turn becomes the fixed failure message, the controls
\* are re-enabled, no request is issued again (a send makes at most one
\* sendMessageStream call, and exactly one when a session exists) and the
\* session handle is the same, so the next submission goes to it.
C5_FailureRecovers ==
    /\ [](/\ \A i \in DOMAIN sends :
                sends[i].pc = "failed" => log[sends[i].el].html = FailureHTML
          /\ \A k \in DOMAIN requests :
                \A m \in DOMAIN requests :
                    requests[k].send = requests[m].send => k = m
          /\ chat # NoChat => Len(requests) = Len(sends))
    /\ [][\A i \in DOMAIN sends :
            (sends[i].pc \in {"await", "stream"} /\ sends'[i].pc = "failed")
            => /\ log'[sends[i].el].html = FailureHTML
               /\ ~disabled'
               /\ requests' = requests
               /\ chat' = chat]_vars

\* A stream failed after a chunk, and a later submission was sent on the
\* same session.
C5_Witness ==
    \E i \in DOMAIN sends : \E k \in DOMAIN requests : \E m \in DOMAIN requests :
        /\ sends[i].pc = "failed" /\ sends[i].n >= 1
        /\ log[sends[i].el].html = FailureHTML
        /\ requests[k].send = i
        /\ requests[m].send > i
        /\ requests[m].session = requests[k].session

\* C6: a submission whose text is empty or only whitespace changes nothing:
\* no log entry, no request, the flight flag, the input field, the session
\* and the transaction list are as they were.
C6_BlankSubmissionIsNoOp ==
    [][(lastOp'.op \in {"submit", "quick"} /\ AllWhitespace(lastOp'.text))
       => UNCHANGED <<progVars, picks>>]_vars

\* A whitespace-only text was submitted in a running conversation.
C6_Witness ==
    /\ lastOp = Op("submit", "  ")
    /\ chatInputValue = "  "
    /\ Len(log) > 0

\* C7: for every send the log shows the literal text, and the prompt passed
\* to the session is the summary-prefixed form whenever the held list was
\* non-empty at send time, and the literal text when it was empty.
C7_PromptCarriesSummary ==
    \A k \in DOMAIN requests :
        /\ UserEntryOf(requests[k].send).html = requests[k].text
        /\ requests[k].prompt =
             IF Len(requests[k].held) > 0
             THEN SummaryPromptOf(requests[k].held, requests[k].text)
             ELSE requests[k].text

\* C8: the held list is empty or fully valid (date and description are
\* non-empty, the amount is a finite number), and a parsed list is no longer
\* than the line count of its text minus one.
C8_ListValid ==
    /\ \A i \in DOMAIN transactions :
         /\ transactions[i].date # ""
         /\ transactions[i].description # ""
         /\ IsFiniteNumber(transactions[i].amount)
    /\ lastOp.op = "load"
         => Len(transactions) <= Len(Split(lastOp.text, "\n")) - 1

\* C9: when the read of a file completes, the held list is the parse of
\* that file's content alone, whatever list was held before.
C9_UploadReplaces ==
    lastOp.op = "load" => transactions = AcceptedRecords(lastOp.text)

\* The read of a second file has completed after a first one had left two
\* records.
C9_Witness ==
    /\ lastOp = Op("load", FileB.content)
    /\ Len(transactions) = 1
    /\ \E i \in DOMAIN log : log[i].html = AnalysisHTML(2)

\* C10: the summary computed at send time has the count of the held list,
\* the sum of the amounts above zero as income and the absolute value of the
\* sum of the amounts below zero as expenses, and sending leaves the list as
\* it was.
C10_SummaryTotals ==
    /\ [](\A k \in DOMAIN requests :
            (requests[k].file # NoFile /\ Len(requests[k].held) > 0)
            => requests[k].prompt
                 = SummaryPromptOf(requests[k].held, requests[k].text))
    /\ [][Len(requests') > Len(requests) => transactions' = transactions]_vars

\* A message was sent over a list holding an income, an expense and a
\* zero amount.
C10_Witness ==
    \E k \in DOMAIN requests :
        /\ requests[k].file # NoFile
        /\ \E a \in DOMAIN requests[k].held : NumGt0(requests[k].held[a].amount)
        /\ \E a \in DOMAIN requests[k].held : NumLt0(requests[k].held[a].amount)
        /\ \E a \in DOMAIN requests[k].held : requests[k].held[a].amount = Fin(0)

\* The entries of a log that show the configuration error.
IsConfigError(e) == e.sender = "model" /\ e.html = ConfigErrorHTML
ConfigErrors(l) == Len(SelectSeq(l, IsConfigError))

\* C11: without a credential the choice of a profile appends the
\* configuration error to the log exactly once, as its first entry, and the
\* state is terminal: no session exists and no request is ever made, while
\* every submission (the greeting included) ends at once with the failure
\* text in its placeholder and the controls enabled.  With a credential the
\* log never shows the configuration error.
C11_NoCredentialIsTerminal ==
    /\ apiKey => ConfigErrors(log) = 0
    /\ (~apiKey /\ userProfile = NoProfile) => ConfigErrors(log) = 0
    /\ (~apiKey /\ userProfile # NoProfile) =>
          /\ ConfigErrors(log) = 1
          /\ IsConfigError(log[1])
    /\ ~apiKey =>
          /\ chat = NoChat
          /\ requests = << >>
          /\ ~disabled
          /\ \A i \in DOMAIN sends :
                /\ sends[i].pc = "failed"
                /\ log[sends[i].el].html = FailureHTML

\* Without a credential, a typed message was submitted after the greeting.
C11_Witness ==
    /\ ~apiKey
    /\ lastOp = Op("submit", " hi ")
    /\ Len(sends) >= 2
    /\ ConfigErrors(log) = 1

\* C12: the controls are disabled only while a send is in flight, and,
\* provided the remote side settles every request and finishes every
\* stream, whenever sends are in flight they eventually all have completed
\* or failed with the controls enabled again.
C12_EverySendReturns ==
    /\ [](disabled => Outstanding(sends) # {})
    /\ (Outstanding(sends) # {}) ~> (Outstanding(sends) = {} /\ ~disabled)

\* One send has ended normally after a chunk, another one has failed in
\* mid-stream, and the controls are enabled.
C12_Witness ==
    /\ ~disabled
    /\ Outstanding(sends) = {}
    /\ \E i \in DOMAIN sends : sends[i].pc = "ok" /\ sends[i].n >= 1
    /\ \E i \in DOMAIN sends :
          sends[i].pc = "failed" /\ log[sends[i].el].html = FailureHTML
                                 /\ requests # << >>

RECURSIVE Concat(_)
Concat(ss) == IF Len(ss) = 0 THEN "" ELSE Head(ss) \o Concat(Tail(ss))

\* C13: while a send streams, and once it has ended normally, its
\* placeholder holds the display formatting of the concatenation of the
\* chunks received so far, in their order of arrival (a double-asterisk
\* span becomes an emphasis element, also when its halves came in different
\* chunks, and a newline becomes a line break); for "Hello " then
\* "**world**" it holds "Hello <strong>world</strong>", and the controls
\* are enabled once the stream has ended.
C13_PlaceholderIsFormattedConcat ==
    /\ [](\A i \in DOMAIN sends :
            LET html == log[sends[i].el].html
                got == sends[i].got
            IN  sends[i].pc \in {"stream", "ok"}
                  => /\ html = FormatResponse(Concat(got))
                     /\ got = <<"Hello ", "**world**">>
                          => html = "Hello <strong>world</strong>"
                     /\ got = <<"**wor", "ld**\n">>
                          => html = "<strong>world</strong><br>"
                     /\ got = <<"ld**\n", "**wor">>
                          => html = "ld**<br>**wor"
                     /\ got = <<"*", "*">> => html = "**"
                     /\ got = <<"\n", "Hello ">> => html = "<br>Hello ")
    /\ [][\A i \in DOMAIN sends :
            (sends[i].pc = "stream" /\ sends'[i].pc = "ok")
            => /\ ~disabled'
               /\ log'[sends[i].el] = log[sends[i].el]]_vars

\* The answer "Hello " then "**world**" has ended normally.
C13_Witness ==
    /\ sends[1].pc = "ok"
    /\ sends[1].got = <<"Hello ", "**world**">>
    /\ log[2].html = "Hello <strong>world</strong>"
    /\ ~disabled

\* C14: from the user's removal of the attached file until the next file
\* is selected, no file is attached and the held list is empty, whatever
\* the conversation does and whatever read was pending at the removal.
C14_RemovalIsStable ==
    removed => (uploadedFile = NoFile /\ transactions = << >>)

\* The held list is the parse of the attached file once no read is pending.
ListIsParseOfAttached ==
    (pending = << >> /\ uploadedFile # NoFile)
    => transactions = AcceptedRecords(uploadedFile.content)

\* C15: at most one file read is pending at a time, and whenever no read is
\* pending and a file is attached the held list is the parse of that file,
\* the most recently selected one.
C15_ReadsNeverClobber ==
    /\ Len(pending) <= 1
    /\ ListIsParseOfAttached

\* C16: the parse of a text is exactly the in-order sequence of the records
\* of those lines after the first that have at least three comma-separated
\* fields, a non-empty trimmed date, a non-empty trimmed description and a
\* third field that parses as a number.  The first line is dropped whatever
\* it holds, blank and failing lines are dropped, equal lines give equal
\* records twice.  The three data lines Salary 2500, Groceries -42.50 and
\* "bad,row" give exactly the first two, summed to 2500 of income and 42.5
\* of expenses.
C16_ParseExact ==
    lastOp.op = "load" =>
        LET lines == Split(lastOp.text, "\n")
            salary == [date |-> "2024-01-01", description |-> "Salary",
                       amount |-> Fin(250000)]
            groceries == [date |-> "2024-01-02", description |-> "Groceries",
                          amount |-> Fin(0 - 4250)]
            rent == [date |-> "2024-01-05", description |-> "Rent",
                     amount |-> Fin(0 - 90050)]
        IN  /\ transactions = AcceptedRecords(lastOp.text)
            /\ Len(transactions)
                 = Cardinality({i \in 2..Len(lines) : RowAccepted(lines[i])})
            /\ lastOp.text = FileA.content
                 => /\ transactions = <<salary, groceries>>
                    /\ totalIncome(transactions) = Fin(250000)
                    /\ NumAbs(totalExpenses(transactions)) = Fin(4250)
            /\ lastOp.text = "2024-01-09,Bonus,100\n2024-01-01,Salary,2500"
                 => transactions = <<salary>>
            /\ lastOp.text = "\n2024-01-01,Salary,2500\n\n2024-01-01,Salary,2500"
                 => transactions = <<salary, salary>>
            /\ lastOp.text = CsvHeader \o "\n 2024-01-05 , Rent , -900.5x,extra"
                                \o "\n ,Rent,-900\n2024-03-01,Fee,n/a"
                 => transactions = <<rent>>
            /\ lastOp.text = CsvHeader \o "\n2024-01-02,Groceries,-42.50"
                                \o "\n2024-01-01,Salary,2500"
                 => transactions = <<groceries, salary>>

\* The read of the text with the two valid lines and the short line has
\* completed.
C16_Witness ==
    /\ lastOp = Op("load", FileA.content)
    /\ Len(transactions) = 2
    /\ pending = << >>
    /\ uploadedFile.name = "generated.csv"

NoRecordsHTML ==
    "I couldn't find any valid transactions in your CSV. Please check the format (e.g., Date,Description,Amount) and try again."

\* The message a completed read of a text must append.
SummaryEntryOf(text) ==
    LET n == Len(AcceptedRecords(text))
    IN  IF n > 0
        THEN [sender |-> "model", html |-> AnalysisHTML(n),
              buttons |-> <<[text |-> "View Transactions", view |-> TRUE]>>,
              block |-> FALSE]
        ELSE [sender |-> "model", html |-> NoRecordsHTML,
              buttons |-> << >>, block |-> FALSE]

\* C17: a completed file read appends exactly one message to the log, the
\* count of the accepted records with a view-transactions button when the
\* count is positive and the format hint without a button when it is zero;
\* a file selection and a removal append nothing; and none of the three
\* changes the flight flag, the session, the sends or the requests.
C17_UploadFrame ==
    [][/\ lastOp'.op = "load"
            => log' = Append(log, SummaryEntryOf(lastOp'.text))
       /\ lastOp'.op \in {"pick", "remove"} => log' = log
       /\ lastOp'.op \in {"pick", "load", "remove"}
            => UNCHANGED <<disabled, chat, sessions, sends, requests,
                           chatInputValue>>]_vars

\* A read that found no record has completed while a send was streaming.
C17_Witness ==
    /\ lastOp = Op("load", FileC.content)
    /\ log[Len(log)] = Entry("model", NoRecordsHTML)
    /\ disabled
    /\ \E i \in DOMAIN sends : sends[i].pc = "stream"

\* C18: a failed file read appends the read-error message to the log and
\* clears the upload state, so that right after it no file is attached and
\* the held list is empty; the flight flag, the session, the sends and the
\* requests are as they were.
C18_ReadErrorClears ==
    /\ [](lastOp.op = "readerror"
            => (uploadedFile = NoFile /\ transactions = << >>))
    /\ [][lastOp'.op = "readerror"
            => /\ log' = Append(log, Entry("model",
                          "Sorry, there was an error reading your file."))
               /\ uploadedFile' = NoFile
               /\ transactions' = << >>
               /\ UNCHANGED <<disabled, chat, sessions, sends, requests,
                              chatInputValue>>]_vars

\* The read of a second file has failed while the two records of a first
\* file were held.
C18_Witness ==
    /\ lastOp = Op("readerror", "b.csv")
    /\ \E i \in DOMAIN log : log[i].html = AnalysisHTML(2)
    /\ log[Len(log)].html = "Sorry, there was an error reading your file."
    /\ uploadedFile = NoFile /\ transactions = << >> /\ pending = << >>

\* The request a submission of a text makes in the current state.
RequestOf(text) ==
    [send |-> Len(sends) + 1, session |-> chat,
     prompt |-> IF uploadedFile # NoFile /\ Len(transactions) > 0
                THEN SummaryPromptOf(transactions, text) ELSE text,
     text |-> text, file |-> uploadedFile, held |-> transactions]

\* What the submission of a non-blank text does up to its first suspension.
SubmissionOf(text) ==
    /\ Len(log') = Len(log) + 2
    /\ SubSeq(log', 1, Len(log)) = log
    /\ log'[Len(log) + 1] = Entry("user", text)
    /\ log'[Len(log) + 2].sender = "model"
    /\ chatInputValue' = ""
    /\ Len(sends') = Len(sends) + 1
    /\ sends'[Len(sends')].text = text
    /\ IF chat = NoChat
       THEN /\ requests' = requests
            /\ sends'[Len(sends')].pc = "failed"
            /\ ~disabled'
       ELSE /\ requests' = Append(requests, RequestOf(text))
            /\ sends'[Len(sends')].pc = "await"
            /\ disabled'

\* C19: a click on a quick-reply button does what the form's submission of
\* that button's text does (the same log entries, the same request on the
\* same session, the same effect on the controls), as a typed submission
\* does for the typed text; a click on a view-transactions button shows the
\* viewer with the rows of the held list (one row per record with its
\* class and currency text, or the one placeholder row) and makes no
\* request, appends nothing to the log and leaves the flight flag, the
\* sends, the list and the attached file as they were.
C19_ButtonsAreInputs ==
    [][/\ (lastOp'.op \in {"quick", "submit"} /\ ~AllWhitespace(lastOp'.text))
            => /\ SubmissionOf(lastOp'.text)
               /\ UNCHANGED <<chat, sessions, transactions, uploadedFile,
                              pending, transactionViewHidden, tableRows>>
       /\ lastOp'.op = "quick"
            => \E i \in DOMAIN log : \E j \in DOMAIN log[i].buttons :
                   /\ ~log[i].buttons[j].view
                   /\ log[i].buttons[j].text = lastOp'.text
       /\ lastOp'.op = "view"
            => /\ ~transactionViewHidden'
               /\ Len(tableRows') = IF Len(transactions) = 0 THEN 1
                                    ELSE Len(transactions)
               /\ \A k \in DOMAIN transactions :
                     /\ tableRows'[k].date = transactions[k].date
                     /\ tableRows'[k].description = transactions[k].description
                     /\ tableRows'[k].amountClass =
                          (IF NumLt0(transactions[k].amount)
                           THEN "amount-negative" ELSE "amount-positive")
               /\ transactions = << >>
                    => tableRows' = <<[colspan |-> 3,
                           text |-> "No transactions found in the file."]>>
               /\ transactions = AcceptedRecords(FileA.content)
                    => /\ tableRows'[1].formattedAmount = "$2,500.00"
                       /\ tableRows'[2].formattedAmount = "-$42.50"
               /\ UNCHANGED <<log, requests, sends, disabled, transactions,
                              uploadedFile, pending, chat, sessions,
                              chatInputValue>>]_vars

\* The viewer shows the two records of the attached file, and no send has
\* been made since the greeting.
C19_Witness ==
    /\ lastOp = Op("view", "")
    /\ ~transactionViewHidden
    /\ Len(tableRows) = 2
    /\ tableRows[2].formattedAmount = "-$42.50"
    /\ Len(sends) = 1 /\ ~disabled
====
